---- MODULE Spec2Model ----
(***************************************************************************)
(* Model of src/converters.ts (did-jwt-vc): the four converters            *)
(* normalizeCredential, transformCredentialInput, normalizePresentation    *)
(* and transformPresentationInput, with the private helpers they share.    *)
(*                                                                         *)
(* JavaScript values are tagged records.  A string is the sequence of its  *)
(* characters, an object is a function from its own property names to      *)
(* values (a property whose value is undefined is in the domain, an absent *)
(* property is not), an array is a sequence.  A thrown exception is a      *)
(* value of kind "throw".  Objects handed to the converters are trees      *)
(* (no object is reachable along two paths), so an assignment through the  *)
(* caller's reference is modelled by returning the updated argument next   *)
(* to the result.                                                          *)
(***************************************************************************)
EXTENDS Integers, Sequences, FiniteSets, TLC

VARIABLES callerInput, given, output, op, decodable, first

vars == <<callerInput, given, output, op, decodable, first>>

\* ------------------------------------------------------------------ values
Undef == [k |-> "undefined"]
Null == [k |-> "null"]
Str(s) == [k |-> "string", s |-> s]
Num(n) == [k |-> "number", n |-> n]
Obj(f) == [k |-> "object", f |-> f]
Arr(a) == [k |-> "array", a |-> a]
Throw(name, msg) == [k |-> "throw", name |-> name, msg |-> msg]

NoProps == [x \in {} |-> Undef]
EmptyObject == Obj(NoProps)

IsThrow(v) == v.k = "throw"
IsObject(v) == v.k = "object"
IsString(v) == v.k = "string"

\* typeof v
TypeOf(v) ==
  CASE v.k = "undefined" -> "undefined"
    [] v.k = "string" -> "string"
    [] v.k = "number" -> "number"
    [] OTHER -> "object"

\* ToBoolean(v): the test made by `if (v)`, `!v`, `a || b`, `c ? a : b`
Truthy(v) ==
  CASE v.k = "undefined" -> FALSE
    [] v.k = "null" -> FALSE
    [] v.k = "string" -> v.s # <<>>
    [] v.k = "number" -> v.n # 0
    [] OTHER -> TRUE

\* Object.getOwnPropertyNames(o).indexOf(key) !== -1
HasOwn(o, key) == IsObject(o) /\ key \in DOMAIN o.f

\* o.key and o?.key: undefined when o is not an object or has no such property
Get(o, key) == IF HasOwn(o, key) THEN o.f[key] ELSE Undef

\* o.key = v
Put(o, key, v) == Obj([x \in DOMAIN o.f \cup {key} |-> IF x = key THEN v ELSE o.f[x]])

\* delete o.key
Delete(o, key) == Obj([x \in DOMAIN o.f \ {key} |-> o.f[x]])

\* delete o.outer?.key
DeleteIn(o, outer, key) ==
  IF IsObject(Get(o, outer)) THEN Put(o, outer, Delete(Get(o, outer), key)) ELSE o

\* the own properties copied by `...v` in an object literal (none for
\* undefined, null, numbers)
Props(v) == IF IsObject(v) THEN v.f ELSE NoProps

\* { ...a, ...b } on property maps: the right-hand side wins
Merge(f, g) == [x \in DOMAIN f \cup DOMAIN g |-> IF x \in DOMAIN g THEN g[x] ELSE f[x]]

\* Object.keys(o).length
KeyCount(o) == Cardinality(DOMAIN o.f)

\* Array.prototype.filter(notEmpty) is SelectSeq(s, notEmpty)

\* [...new Set(s)]: first occurrence of each value, in insertion order
RECURSIVE Dedup(_)
Dedup(s) ==
  IF s = <<>> THEN <<>>
  ELSE LET init == Dedup(SubSeq(s, 1, Len(s) - 1))
           last == s[Len(s)]
       IN IF \E i \in 1..Len(init) : init[i] = last THEN init ELSE Append(init, last)

asArray(v) == IF v.k = "array" THEN v.a ELSE <<v>>

notEmpty(v) == v.k # "null" /\ v.k # "undefined"

RECURSIVE deepCopy(_)
deepCopy(v) ==
  CASE v.k = "array" -> Arr([i \in 1..Len(v.a) |-> deepCopy(v.a[i])])
    [] v.k = "object" -> Obj([x \in DOMAIN v.f |-> deepCopy(v.f[x])])
    [] OTHER -> v

cleanUndefined(o) ==
  IF TypeOf(o) # "object" THEN o
  ELSE Obj([x \in {y \in DOMAIN o.f : o.f[y] # Undef} |-> o.f[x]])

\* ------------------------------------------------------------------- dates
\* An instant is kept as whole seconds since the epoch plus 0..999
\* milliseconds (the number sec * 1000 + ms), so that the products stay in
\* the checker's integer range.
Digits == <<"0", "1", "2", "3", "4", "5", "6", "7", "8", "9">>

Digit(n) == Digits[n + 1]

Pad2(n) == <<Digit(n \div 10), Digit(n % 10)>>

Pad3(n) == <<Digit(n \div 100), Digit((n \div 10) % 10), Digit(n % 10)>>

Pad4(n) == <<Digit(n \div 1000), Digit((n \div 100) % 10), Digit((n \div 10) % 10), Digit(n % 10)>>

\* proleptic Gregorian date of the day number z (days since 1970-01-01)
CivilFromDays(z) ==
  LET zz == z + 719468
      era == zz \div 146097
      doe == zz - era * 146097
      yoe == (doe - doe \div 1460 + doe \div 36524 - doe \div 146096) \div 365
      doy == doe - (365 * yoe + yoe \div 4 - yoe \div 100)
      mp == (5 * doy + 2) \div 153
      d == doy - (153 * mp + 2) \div 5 + 1
      m == IF mp < 10 THEN mp + 3 ELSE mp - 9
      y == yoe + era * 400 + (IF m <= 2 THEN 1 ELSE 0)
  IN [y |-> y, m |-> m, d |-> d]

DaysFromCivil(y0, m, d) ==
  LET y == IF m <= 2 THEN y0 - 1 ELSE y0
      era == y \div 400
      yoe == y - era * 400
      doy == (153 * (IF m > 2 THEN m - 3 ELSE m + 9) + 2) \div 5 + d - 1
      doe == yoe * 365 + yoe \div 4 - yoe \div 100 + doy
  IN era * 146097 + doe - 719468

\* YYYY-MM-DDTHH:mm:ss.sssZ of the civil date c, rem seconds and ms
\* milliseconds into the day
IsoText(c, rem, ms) ==
  Str(Pad4(c.y) \o <<"-">> \o Pad2(c.m) \o <<"-">> \o Pad2(c.d) \o <<"T">>
      \o Pad2(rem \div 3600) \o <<":">> \o Pad2((rem \div 60) % 60) \o <<":">>
      \o Pad2(rem % 60) \o <<".">> \o Pad3(ms) \o <<"Z">>)

\* toISOString printing the month as getUTCMonth() counts it, from 0
toISOStringMonthFromZero(sec, ms) ==
  IsoText([CivilFromDays(sec \div 86400) EXCEPT !.m = @ - 1], sec % 86400, ms)

\* new Date(sec * 1000 + ms).toISOString(), for years 0000..9999
toISOString(sec, ms) == IsoText(CivilFromDays(sec \div 86400), sec % 86400, ms)

IsDigit(c) == \E i \in 1..10 : Digits[i] = c

DigitVal(c) == (CHOOSE i \in 1..10 : Digits[i] = c) - 1

RECURSIVE NumVal(_)
NumVal(s) == IF s = <<>> THEN 0 ELSE 10 * NumVal(SubSeq(s, 1, Len(s) - 1)) + DigitVal(s[Len(s)])

\* Date.parse(v) on the format toISOString produces; every other string the
\* model uses is made of letters only, which no engine parses as a date (NaN)
DateParse(v) ==
  LET s == v.s
      shape == /\ IsString(v)
               /\ Len(s) = 24
               /\ \A i \in {1, 2, 3, 4, 6, 7, 9, 10, 12, 13, 15, 16, 18, 19, 21, 22, 23} : IsDigit(s[i])
               /\ s[5] = "-" /\ s[8] = "-" /\ s[11] = "T" /\ s[14] = ":" /\ s[17] = ":"
               /\ s[20] = "." /\ s[24] = "Z"
      y == NumVal(SubSeq(s, 1, 4))
      mo == NumVal(SubSeq(s, 6, 7))
      d == NumVal(SubSeq(s, 9, 10))
      h == NumVal(SubSeq(s, 12, 13))
      mi == NumVal(SubSeq(s, 15, 16))
      se == NumVal(SubSeq(s, 18, 19))
      ms == NumVal(SubSeq(s, 21, 23))
  IN IF shape /\ mo \in 1..12 /\ d \in 1..31 /\ h < 24 /\ mi < 60 /\ se < 60
     THEN [nan |-> FALSE, sec |-> DaysFromCivil(y, mo, d) * 86400 + h * 3600 + mi * 60 + se, ms |-> ms]
     ELSE [nan |-> TRUE, sec |-> 0, ms |-> 0]

\* Math.floor(converted / 1000)
FloorSeconds(converted) == converted.sec

\* --------------------------------------------------------------- constants
\* /^[A-Za-z0-9_-]+\.[A-Za-z0-9_-]+\.[A-Za-z0-9_-]*$/
Base64UrlChars ==
  {"a", "b", "c", "d", "e", "f", "g", "h", "i", "j", "k", "l", "m", "n", "o", "p", "q", "r",
   "s", "t", "u", "v", "w", "x", "y", "z", "A", "B", "C", "D", "E", "F", "G", "H", "I", "J",
   "K", "L", "M", "N", "O", "P", "Q", "R", "S", "T", "U", "V", "W", "X", "Y", "Z", "0", "1",
   "2", "3", "4", "5", "6", "7", "8", "9", "_", "-"}

IsSegment(s) == \A i \in 1..Len(s) : s[i] \in Base64UrlChars

\* JWT_FORMAT.test(v)
JWT_FORMAT(v) ==
  /\ IsString(v)
  /\ \E i, j \in 1..Len(v.s) :
       /\ i < j /\ v.s[i] = "." /\ v.s[j] = "."
       /\ i > 1 /\ IsSegment(SubSeq(v.s, 1, i - 1))
       /\ j > i + 1 /\ IsSegment(SubSeq(v.s, i + 1, j - 1))
       /\ IsSegment(SubSeq(v.s, j + 1, Len(v.s)))

DEFAULT_JWT_PROOF_TYPE == Str(<<"J", "w", "t", "P", "r", "o", "o", "f", "2", "0", "2", "0">>)

DEFAULT_CONTEXT == Str(<<"h", "t", "t", "p", "s", ":", "/", "/", "w", "w", "w", ".", "w", "3", ".", "o", "r", "g", "/", "2", "0", "1", "8", "/", "c", "r", "e", "d", "e", "n", "t", "i", "a", "l", "s", "/", "v", "1">>)

DEFAULT_VC_TYPE == Str(<<"V", "e", "r", "i", "f", "i", "a", "b", "l", "e", "C", "r", "e", "d", "e", "n", "t", "i", "a", "l">>)

\* ------------------------------------------------------ external functions
\* JSON.parse(v) on texts over TextChars: the only JSON texts over that
\* alphabet are the empty object and the string literals without escapes
JSONParse(v) ==
  LET s == v.s
  IN IF s = <<"{", "}">> THEN EmptyObject
     ELSE IF /\ Len(s) >= 2 /\ s[1] = "\"" /\ s[Len(s)] = "\""
             /\ \A i \in 2..(Len(s) - 1) : s[i] # "\"" /\ s[i] # "\\"
          THEN Str(SubSeq(s, 2, Len(s) - 1))
          ELSE Throw("SyntaxError", "unexpected token")

\* the two compact tokens the decoder may know, and the claims they carry
TokenA == Str(<<"a", ".", "a", ".", "a">>)

TokenB == Str(<<"a", ".", "a", ".">>)

Tokens == {TokenA, TokenB}

ClaimsA ==
  Obj([iss |-> Str(<<"d", "i", "d", ":", "y">>), sub |-> Str(<<"d", "i", "d", ":", "x">>), nbf |-> Num(86400),
       vc |-> Obj([type |-> Arr(<<DEFAULT_VC_TYPE>>),
                   credentialSubject |-> Obj([degree |-> Str(<<"B", "A">>)])])])

ClaimsB ==
  Obj([iss |-> Str(<<"d", "i", "d", ":", "z">>), jti |-> Str(<<"u", "r", "n", ":", "b">>), exp |-> Num(90000),
       vc |-> Obj([type |-> Arr(<<DEFAULT_VC_TYPE, Str(<<"D", "e", "g", "r", "e", "e">>)>>),
                   credentialSubject |-> Obj([id |-> Str(<<"d", "i", "d", ":", "w">>)])])])

\* decodeJWT(token) of did-jwt: throws on a token it cannot decode, else
\* returns the token's claims as a fresh object
decodeJWT(token) ==
  IF token \in decodable
  THEN Obj([payload |-> IF token = TokenA THEN ClaimsA ELSE ClaimsB])
  ELSE Throw("Error", "invalid_argument: Incorrect format JWT")

\* ------------------------------------------------ credential normalization
isLegacyAttestationFormat(payload) ==
  /\ IsObject(payload)
  /\ Truthy(Get(payload, "sub"))
  /\ Truthy(Get(payload, "iss"))
  /\ Truthy(Get(payload, "claim"))
  /\ Truthy(Get(payload, "iat"))

\* res is the returned object, arg the caller's payload after the call
attestationToVcFormat(payload) ==
  LET iat == Get(payload, "iat")
      nbf == Get(payload, "nbf")
      vc == Get(payload, "vc")
      rest == [x \in DOMAIN payload.f \ {"iat", "nbf", "claim", "vc"} |-> payload.f[x]]
      result == Obj(Merge(rest,
                  [nbf |-> IF Truthy(nbf) THEN nbf ELSE iat,
                   vc |-> Obj(("@context" :> Arr(<<DEFAULT_CONTEXT>>))
                              @@ [type |-> Arr(<<DEFAULT_VC_TYPE>>),
                                  credentialSubject |-> Get(payload, "claim")])]))
  IN [res |-> result,
      arg |-> IF Truthy(vc) THEN Put(payload, "issVc", vc) ELSE payload]

\* lines 91-96
SubjectStep(result, input) ==
  LET merged == Obj(Merge(Props(Get(input, "credentialSubject")),
                          Props(Get(Get(input, "vc"), "credentialSubject"))))
      r1 == Put(result, "credentialSubject", merged)
      r2 == IF Truthy(Get(input, "sub")) /\ ~Truthy(Get(Get(input, "credentialSubject"), "id"))
            THEN Delete(Put(r1, "credentialSubject", Put(merged, "id", Get(input, "sub"))), "sub")
            ELSE r1
  IN DeleteIn(r2, "vc", "credentialSubject")

\* lines 98-103
IssuerStep(result, input) ==
  LET issuer == Get(input, "issuer")
      r1 == Put(result, "issuer",
                cleanUndefined(Obj(Merge([id |-> Get(input, "iss")], Props(issuer)))))
  IN IF TypeOf(issuer) \in {"undefined", "object"}
     THEN (IF ~Truthy(Get(issuer, "id")) THEN Delete(r1, "iss") ELSE r1)
     ELSE result

\* lines 105-108
IdStep(result, input) ==
  IF ~Truthy(Get(input, "id")) /\ Truthy(Get(input, "jti"))
  THEN Delete(Put(result, "id",
                  IF Truthy(Get(result, "id")) THEN Get(result, "id") ELSE Get(result, "jti")),
              "jti")
  ELSE result

\* lines 110-112
TypeStep(result) ==
  LET types == SelectSeq(asArray(Get(result, "type")) \o asArray(Get(Get(result, "vc"), "type")),
                         notEmpty)
  IN DeleteIn(Put(result, "type", Arr(Dedup(types))), "vc", "type")

\* lines 114-121
ContextStep(result, input) ==
  LET contextArray == SelectSeq(asArray(Get(input, "context"))
                                \o asArray(Get(input, "@context"))
                                \o asArray(Get(Get(input, "vc"), "@context")), notEmpty)
  IN DeleteIn(Delete(Put(result, "@context", Arr(Dedup(contextArray))), "context"),
              "vc", "@context")

\* lines 123-130 and 310-317; the time claims of the modelled payloads are
\* numbers
IssuanceDateStep(result, input) ==
  LET nbf == Get(input, "nbf")
      iat == Get(input, "iat")
  IN IF ~Truthy(Get(input, "issuanceDate")) /\ (Truthy(iat) \/ Truthy(nbf))
     THEN Delete(Put(result, "issuanceDate",
                     toISOString((IF Truthy(nbf) THEN nbf ELSE iat).n, 0)),
                 IF Truthy(nbf) THEN "nbf" ELSE "iat")
     ELSE result

\* lines 132-135 and 319-322
ExpirationDateStep(result, input) ==
  IF ~Truthy(Get(input, "expirationDate")) /\ Truthy(Get(input, "exp"))
  THEN Delete(Put(result, "expirationDate", toISOString(Get(input, "exp").n, 0)), "exp")
  ELSE result

\* lines 123-135 and 310-322
DateStep(result, input) == ExpirationDateStep(IssuanceDateStep(result, input), input)

\* delete result.<envelope> when it is an empty object (lines 137-139)
EnvelopeStep(result, envelope) ==
  IF Truthy(Get(result, envelope)) /\ KeyCount(Get(result, envelope)) = 0
  THEN Delete(result, envelope)
  ELSE result

normalizeJwtCredentialPayload(input0) ==
  LET legacy == isLegacyAttestationFormat(input0)
      att == attestationToVcFormat(input0)
      input1 == IF legacy THEN att.arg ELSE input0
      r0 == IF legacy THEN att.res ELSE deepCopy(input0)
      r1 == SubjectStep(r0, input1)
      r2 == IssuerStep(r1, input1)
      r3 == IdStep(r2, input1)
      r4 == TypeStep(r3)
      r5 == ContextStep(r4, input1)
      r6 == DateStep(r5, input1)
  IN [res |-> EnvelopeStep(r6, "vc"), arg |-> input1]

\* normalizeJwtCredential without the try/catch around decodeJWT
normalizeJwtCredentialUncaught(token) ==
  LET decoded == decodeJWT(token)
  IN IF IsThrow(decoded)
     THEN decoded
     ELSE Put(normalizeJwtCredentialPayload(Get(decoded, "payload")).res, "proof",
              Obj([type |-> DEFAULT_JWT_PROOF_TYPE, jwt |-> token]))

normalizeJwtCredential(token) ==
  LET decoded == decodeJWT(token)
  IN IF IsThrow(decoded)
     THEN Throw("TypeError", "unknown credential format")
     ELSE Put(normalizeJwtCredentialPayload(Get(decoded, "payload")).res, "proof",
              Obj([type |-> DEFAULT_JWT_PROOF_TYPE, jwt |-> token]))

\* line 184: { ...jwtResult, proof: input.proof } deep-copied, unless
\* normalizeJwtCredential threw
CredentialWithInputProof(jwtResult, in) ==
  IF IsThrow(jwtResult)
  THEN jwtResult
  ELSE deepCopy(Put(jwtResult, "proof", Get(in, "proof")))

\* lines 188 and 372: { proof: {}, ...n.res }, unless the payload normalizer
\* threw
WithEmptyProof(n) ==
  [res |-> IF IsThrow(n.res) THEN n.res ELSE Obj(Merge([proof |-> EmptyObject], n.res.f)),
   arg |-> n.arg]

\* res is the returned credential or the exception thrown, arg the caller's
\* input after the call
RECURSIVE normalizeCredential(_)
normalizeCredential(in) ==
  IF TypeOf(in) = "string"
  THEN IF JWT_FORMAT(in)
       THEN [res |-> normalizeJwtCredential(in), arg |-> in]
       ELSE LET parsed == JSONParse(in)
            IN IF IsThrow(parsed)
               THEN [res |-> Throw("TypeError", "unknown credential format"), arg |-> in]
               ELSE [res |-> normalizeCredential(parsed).res, arg |-> in]
  ELSE IF Truthy(Get(Get(in, "proof"), "jwt"))
       THEN [res |-> CredentialWithInputProof(
                       normalizeJwtCredential(Get(Get(in, "proof"), "jwt")), in),
             arg |-> in]
       ELSE WithEmptyProof(normalizeJwtCredentialPayload(in))

\* ------------------------------------------------- credential transformation
\* IdToJti testing the value of jti instead of the own property
IdToJtiByValue(result, input) ==
  IF Truthy(Get(input, "id")) /\ ~Truthy(Get(input, "jti"))
  THEN Delete(Put(result, "jti", Get(input, "id")), "id")
  ELSE result

\* lines 232-235 and 400-403
IdToJti(result, input) ==
  IF Truthy(Get(input, "id")) /\ ~HasOwn(input, "jti")
  THEN Delete(Put(result, "jti", Get(input, "id")), "id")
  ELSE result

\* lines 237-243, 245-251, 405-411 and 413-419
DateToSeconds(result, input, dateKey, claimKey) ==
  LET converted == DateParse(Get(input, dateKey))
  IN IF Truthy(Get(input, dateKey)) /\ ~HasOwn(input, claimKey) /\ ~converted.nan
     THEN Delete(Put(result, claimKey, Num(FloorSeconds(converted))), dateKey)
     ELSE result

\* lines 253-266
IssuerToIss(result, input) ==
  LET issuer == Get(input, "issuer")
  IN IF Truthy(issuer) /\ ~HasOwn(input, "iss")
     THEN IF TypeOf(issuer) = "object"
          THEN LET r1 == DeleteIn(Put(result, "iss", Get(issuer, "id")), "issuer", "id")
               IN IF KeyCount(Get(r1, "issuer")) = 0 THEN Delete(r1, "issuer") ELSE r1
          ELSE IF TypeOf(issuer) = "string"
               THEN Delete(Put(result, "iss",
                               IF Truthy(Get(input, "iss")) THEN Get(input, "iss") ELSE issuer),
                           "issuer")
               ELSE result
     ELSE result

\* lines 219-230 and 387-398: envelope is "vc" or "vp"
ContextAndTypeToEnvelope(result, input, envelope) ==
  LET contextEntries == SelectSeq(asArray(Get(input, "context"))
                                  \o asArray(Get(input, "@context"))
                                  \o asArray(Get(Get(input, envelope), "@context")), notEmpty)
      types == SelectSeq(asArray(Get(input, "type")) \o asArray(Get(Get(input, envelope), "type")),
                         notEmpty)
      env == Put(Put(Get(result, envelope), "@context", Arr(Dedup(contextEntries))),
                 "type", Arr(Dedup(types)))
  IN Delete(Delete(Delete(Put(result, envelope, env), "context"), "@context"), "type")

\* lines 209-217
SubjectToEnvelope(result, input) ==
  LET merged == Obj(Merge(Props(Get(input, "credentialSubject")),
                          Props(Get(Get(input, "vc"), "credentialSubject"))))
      promote == ~Truthy(Get(input, "sub"))
      r1 == IF promote
            THEN Put(result, "sub", Get(Get(input, "credentialSubject"), "id"))
            ELSE result
      credentialSubject == IF promote THEN Delete(merged, "id") ELSE merged
  IN Delete(Put(r1, "vc", Put(Get(r1, "vc"), "credentialSubject", credentialSubject)),
            "credentialSubject")

\* the returned payload, or the exception thrown
transformCredentialInput(input) ==
  LET result == deepCopy(Obj(Merge([vc |-> Obj(Props(Get(input, "vc")))], input.f)))
  IN IF Get(input, "credentialSubject").k = "array"
     THEN Throw("Error", "credentialSubject of type array not supported")
     ELSE IF ~IsObject(Get(result, "vc"))
          THEN Throw("TypeError", "cannot set properties of undefined")
          ELSE LET r1 == SubjectToEnvelope(result, input)
                   r2 == ContextAndTypeToEnvelope(r1, input, "vc")
                   r3 == IdToJti(r2, input)
                   r4 == DateToSeconds(r3, input, "issuanceDate", "nbf")
                   r5 == DateToSeconds(r4, input, "expirationDate", "exp")
               IN IssuerToIss(r5, input)

\* ------------------------------------------------------------ presentations
\* number of non-empty entries among the first n of s
RECURSIVE KeptUpTo(_, _)
KeptUpTo(s, n) == IF n = 0 THEN 0 ELSE KeptUpTo(s, n - 1) + (IF notEmpty(s[n]) THEN 1 ELSE 0)

\* CredentialEntries with the envelope's entries first
CredentialEntriesEnvelopeFirst(input) ==
  SelectSeq(asArray(Get(Get(input, "vp"), "verifiableCredential"))
            \o asArray(Get(input, "verifiableCredential")), notEmpty)

\* lines 274-277: the top-level entries, then the envelope's, without the
\* null and undefined ones
CredentialEntries(input) ==
  SelectSeq(asArray(Get(input, "verifiableCredential"))
            \o asArray(Get(Get(input, "vp"), "verifiableCredential")), notEmpty)

\* lines 274-279: .map(normalizeCredential) visits the entries in order and
\* stops at the first one that throws; every visited entry is the caller's
\* own object, so what normalizeCredential assigns to it stays in the input
MapNormalizeCredential(entries) ==
  [i \in 1..Len(entries) |-> normalizeCredential(entries[i])]

\* lines 278-279, given what normalizeCredential made of each entry
AssignCredentials(result, input, visits) ==
  LET top == asArray(Get(input, "verifiableCredential"))
      inner == asArray(Get(Get(input, "vp"), "verifiableCredential"))
      thrown == {i \in 1..Len(visits) : IsThrow(visits[i].res)}
      stop == IF thrown = {} THEN Len(visits) ELSE CHOOSE i \in thrown : \A j \in thrown : i <= j
      After(s, offset) ==
        [p \in 1..Len(s) |->
           IF notEmpty(s[p]) /\ offset + KeptUpTo(s, p) <= stop
           THEN visits[offset + KeptUpTo(s, p)].arg
           ELSE s[p]]
      Back(old, s) == IF old.k = "array" THEN Arr(s) ELSE s[1]
      in1 == IF HasOwn(input, "verifiableCredential")
             THEN Put(input, "verifiableCredential",
                      Back(Get(input, "verifiableCredential"), After(top, 0)))
             ELSE input
      in2 == IF HasOwn(Get(input, "vp"), "verifiableCredential")
             THEN Put(in1, "vp",
                      Put(Get(input, "vp"), "verifiableCredential",
                          Back(Get(Get(input, "vp"), "verifiableCredential"),
                               After(inner, KeptUpTo(top, Len(top))))))
             ELSE in1
  IN [res |-> IF thrown = {}
              THEN DeleteIn(Put(result, "verifiableCredential",
                                Arr([i \in 1..Len(visits) |-> visits[i].res])),
                            "vp", "verifiableCredential")
              ELSE visits[stop].res,
      arg |-> in2]

\* lines 274-279
CredentialsStep(result, input) ==
  AssignCredentials(result, input, MapNormalizeCredential(CredentialEntries(input)))

\* lines 281-284
HolderStep(result, input) ==
  IF Truthy(Get(input, "iss")) /\ ~Truthy(Get(input, "holder"))
  THEN Delete(Put(result, "holder", Get(input, "iss")), "iss")
  ELSE result

\* lines 286-290
VerifierStep(result, input) ==
  IF Truthy(Get(input, "aud"))
  THEN Delete(Put(result, "verifier",
                  Arr(Dedup(SelectSeq(asArray(Get(input, "verifier")) \o asArray(Get(input, "aud")),
                                      notEmpty)))),
              "aud")
  ELSE result

\* lines 292-295
JtiToId(result, input) ==
  IF Truthy(Get(input, "jti")) /\ ~HasOwn(input, "id")
  THEN Delete(Put(result, "id",
                  IF Truthy(Get(input, "id")) THEN Get(input, "id") ELSE Get(input, "jti")),
              "jti")
  ELSE result

\* lines 297-308
PresentationTypeAndContextStep(result, input) ==
  LET types == SelectSeq(asArray(Get(input, "type")) \o asArray(Get(Get(input, "vp"), "type")),
                         notEmpty)
      contexts == SelectSeq(asArray(Get(input, "context"))
                            \o asArray(Get(input, "@context"))
                            \o asArray(Get(Get(input, "vp"), "@context")), notEmpty)
      r1 == DeleteIn(Put(result, "type", Arr(Dedup(types))), "vp", "type")
  IN DeleteIn(Delete(Put(r1, "@context", Arr(Dedup(contexts))), "context"), "vp", "@context")

\* lines 281-328, c being what the credentials step returned: one of the
\* entries' exceptions ends the call
PresentationSteps(c, input) ==
  LET r1 == HolderStep(c.res, input)
      r2 == VerifierStep(r1, input)
      r3 == JtiToId(r2, input)
      r4 == PresentationTypeAndContextStep(r3, input)
      r5 == DateStep(r4, input)
  IN [res |-> IF IsThrow(c.res) THEN c.res ELSE EnvelopeStep(r5, "vp"), arg |-> c.arg]

normalizeJwtPresentationPayload(input) ==
  PresentationSteps(CredentialsStep(deepCopy(input), input), input)

\* lines 338-344: { ...n, proof: { type, jwt } }, unless the payload
\* normalizer threw
WithJwtProof(n, token) ==
  IF IsThrow(n)
  THEN n
  ELSE Put(n, "proof", Obj([type |-> DEFAULT_JWT_PROOF_TYPE, jwt |-> token]))

normalizeJwtPresentation(token) ==
  LET decoded == decodeJWT(token)
  IN IF IsThrow(decoded)
     THEN Throw("TypeError", "unknown presentation format")
     ELSE WithJwtProof(normalizeJwtPresentationPayload(Get(decoded, "payload")).res, token)

\* line 368: { ...jwtResult, proof: input.proof }, unless
\* normalizeJwtPresentation threw
PresentationWithInputProof(jwtResult, in) ==
  IF IsThrow(jwtResult) THEN jwtResult ELSE Put(jwtResult, "proof", Get(in, "proof"))

RECURSIVE normalizePresentation(_)
normalizePresentation(in) ==
  IF TypeOf(in) = "string"
  THEN IF JWT_FORMAT(in)
       THEN [res |-> normalizeJwtPresentation(in), arg |-> in]
       ELSE LET parsed == JSONParse(in)
            IN IF IsThrow(parsed)
               THEN [res |-> Throw("TypeError", "unknown presentation format"), arg |-> in]
               ELSE [res |-> normalizePresentation(parsed).res, arg |-> in]
  ELSE IF Truthy(Get(Get(in, "proof"), "jwt"))
       THEN [res |-> PresentationWithInputProof(
                       normalizeJwtPresentation(Get(Get(in, "proof"), "jwt")), in),
             arg |-> in]
       ELSE WithEmptyProof(normalizeJwtPresentationPayload(in))

\* lines 421-433
CredentialsToEnvelope(result) ==
  LET entries == SelectSeq(asArray(Get(result, "verifiableCredential"))
                           \o asArray(Get(Get(result, "vp"), "verifiableCredential")), notEmpty)
      Reduce(credential) ==
        IF TypeOf(credential) = "object" /\ Truthy(Get(Get(credential, "proof"), "jwt"))
        THEN Get(Get(credential, "proof"), "jwt")
        ELSE credential
  IN Delete(Put(result, "vp",
                Put(Get(result, "vp"), "verifiableCredential",
                    Arr([i \in 1..Len(entries) |-> Reduce(entries[i])]))),
            "verifiableCredential")

\* lines 435-442
HolderToIss(result, input) ==
  IF Truthy(Get(input, "holder")) /\ ~HasOwn(input, "iss") /\ TypeOf(Get(input, "holder")) = "string"
  THEN Delete(Put(result, "iss", Get(input, "holder")), "holder")
  ELSE result

\* lines 444-448
VerifierToAud(result, input) ==
  IF Truthy(Get(input, "verifier"))
  THEN Delete(Put(result, "aud",
                  Arr(Dedup(SelectSeq(asArray(Get(input, "verifier")) \o asArray(Get(input, "aud")),
                                      notEmpty)))),
              "verifier")
  ELSE result

transformPresentationInput(input) ==
  LET result == deepCopy(Obj(Merge([vp |-> Obj(Props(Get(input, "vp")))], input.f)))
  IN IF ~IsObject(Get(result, "vp"))
     THEN Throw("TypeError", "cannot set properties of undefined")
     ELSE LET r1 == ContextAndTypeToEnvelope(result, input, "vp")
              r2 == IdToJti(r1, input)
              r3 == DateToSeconds(r2, input, "issuanceDate", "nbf")
              r4 == DateToSeconds(r3, input, "expirationDate", "exp")
              r5 == CredentialsToEnvelope(r4)
              r6 == HolderToIss(r5, input)
          IN VerifierToAud(r6, input)

\* ------------------------------------------------------------------ bounds
MaxTimes == 2

BaseTime == 1600000000

TimeStride == 2682061

MaxEntries == 2

MaxTextLen == 5

\* ------------------------------------------------------------------ inputs
\* numeric dates: BaseTime is 2020-09-13T12:26:40Z, the stride moves every
\* component of the date
Times == {BaseTime + i * TimeStride : i \in 0..MaxTimes}

Absent == [k |-> "absent"]

\* the object with the properties of r that are not Absent
Build(r) ==
  LET keys == {x \in DOMAIN r : r[x] # Absent}
      Name(x) == IF x = "atContext" THEN "@context" ELSE x
  IN Obj([y \in {Name(x) : x \in keys} |-> IF y = "@context" THEN r["atContext"] ELSE r[y]])

DidX == Str(<<"d", "i", "d", ":", "x">>)

DidY == Str(<<"d", "i", "d", ":", "y">>)

DidC == Str(<<"d", "i", "d", ":", "c">>)

DidV == Str(<<"d", "i", "d", ":", "v">>)

DegreeType == Str(<<"D", "e", "g", "r", "e", "e">>)

OtherContext == Str(<<"h", "t", "t", "p", "s", ":", "/", "/", "e", "x", "a", "m", "p", "l", "e", ".", "o", "r", "g", "/", "v", "1">>)

BadDate == Str(<<"t", "o", "m", "o", "r", "r", "o", "w">>)

Subjects == {Obj([id |-> DidC]), Obj([name |-> Str(<<"B", "o", "b">>)]), Obj([id |-> DidC, degree |-> Str(<<"B", "S", "c">>)])}

EnvelopeSubjects ==
  {Obj([id |-> DidV]), Obj([degree |-> Str(<<"M", "A">>)]), Obj([id |-> DidV, degree |-> Str(<<"M", "A">>)]),
   Obj([id |-> Undef])}

TypeLists ==
  {Arr(<<DEFAULT_VC_TYPE>>), Arr(<<DEFAULT_VC_TYPE, DegreeType>>),
   Arr(<<DEFAULT_VC_TYPE, DegreeType, DEFAULT_VC_TYPE>>)}

ContextLists == {Arr(<<DEFAULT_CONTEXT>>), Arr(<<DEFAULT_CONTEXT, OtherContext>>)}

\* vc envelopes
Envelopes ==
  {Build(r) : r \in [credentialSubject : {Absent} \cup EnvelopeSubjects,
                     type : {Absent, Arr(<<DEFAULT_VC_TYPE, DegreeType>>)},
                     atContext : {Absent, Arr(<<DEFAULT_CONTEXT>>)}]}

\* subjects, legacy attestations and their envelopes
SubjectInputs ==
  {Build(r) : r \in [sub : {Absent, DidX},
                     iss : {Absent, DidY},
                     claim : {Absent, Obj([degree |-> Str(<<"B", "A">>)])},
                     iat : {Absent, Num(BaseTime)},
                     nbf : {Absent, Num(BaseTime + TimeStride)},
                     credentialSubject : {Absent} \cup Subjects,
                     vc : {Absent} \cup Envelopes]}

IsoDates == {toISOString(t, ms) : t \in Times, ms \in {0, 500}}

\* identifiers and dates, absent, present or explicitly undefined
IdDateInputs ==
  {Build(r) : r \in [id : {Absent, Str(<<"u", "r", "n", ":", "i">>)},
                     jti : {Absent, Undef, Str(<<"u", "r", "n", ":", "j">>)},
                     nbf : {Absent, Undef, Num(BaseTime)},
                     issuanceDate : {Absent, BadDate} \cup IsoDates,
                     exp : {Absent, Undef, Num(BaseTime + TimeStride)},
                     expirationDate : {Absent, BadDate, toISOString(BaseTime + TimeStride, 500)}]}

IssuerInputs ==
  {Build(r) : r \in [iss : {Absent, Undef, DidY},
                     issuer : {Absent, DidX, Obj([id |-> DidX]), Obj([name |-> Str(<<"U", "n", "i">>)]),
                               Obj([id |-> DidX, name |-> Str(<<"U", "n", "i">>)])},
                     id : {Absent, Str(<<"u", "r", "n", ":", "i">>)},
                     jti : {Absent, Str(<<"u", "r", "n", ":", "j">>)}]}

TypeContextInputs ==
  {Build(r) : r \in [type : {Absent, DegreeType} \cup TypeLists,
                     context : {Absent, OtherContext},
                     atContext : {Absent} \cup ContextLists,
                     vc : {Absent} \cup Envelopes]}

\* JWT claims with every claim of the round trip
ClaimsInputs ==
  {Build(r) : r \in [iss : {DidY},
                     sub : {Absent, DidX},
                     jti : {Str(<<"u", "r", "n", ":", "j">>)},
                     nbf : {Num(t) : t \in Times},
                     exp : {Num(t) : t \in Times},
                     vc : {Build(e) : e \in [credentialSubject : EnvelopeSubjects \ {Obj([id |-> Undef])},
                                            type : TypeLists,
                                            atContext : ContextLists]}]}

\* credentials that carry their compact form
ProofInputs ==
  {Build(r) : r \in [proof : {Obj([jwt |-> t]) : t \in Tokens}
                             \cup {Obj([jwt |-> TokenA, created |-> Str(<<"n", "o", "w">>)])},
                     credentialSubject : {Absent, Obj([id |-> DidC])}]}

\* the same claims on top of a legacy attestation
LegacyClaimsInputs ==
  {Put(Put(p, "claim", Obj([degree |-> Str(<<"B", "A">>)])), "iat", Num(BaseTime)) :
     p \in {q \in ClaimsInputs : HasOwn(q, "sub")}}

CredentialInputs ==
  SubjectInputs \cup IdDateInputs \cup IssuerInputs \cup TypeContextInputs \cup ClaimsInputs
  \cup LegacyClaimsInputs

\* entries of a presentation's credential lists
Entries ==
  {TokenA, TokenB, Null,
   Obj([credentialSubject |-> Obj([id |-> DidC]), issuer |-> DidY]),
   Obj([sub |-> DidX, iss |-> DidY, claim |-> Obj([degree |-> Str(<<"B", "A">>)]), iat |-> Num(BaseTime),
        vc |-> Obj([type |-> Arr(<<DegreeType>>)])])}

RECURSIVE SeqsUpTo(_, _)
SeqsUpTo(S, n) ==
  IF n = 0 THEN {<<>>}
  ELSE LET shorter == SeqsUpTo(S, n - 1)
       IN shorter \cup {Append(s, e) : s \in shorter, e \in S}

EntryInputs ==
  {Build(r) : r \in [verifiableCredential :
                       {Absent} \cup (Entries \ {Null})
                       \cup {Arr(s) : s \in SeqsUpTo(Entries, MaxEntries)},
                     vp : {Absent, Obj([type |-> Arr(<<Str(<<"V", "e", "r", "i", "f", "i", "a", "b", "l", "e", "P", "r", "e", "s", "e", "n", "t", "a", "t", "i", "o", "n">>)>>)])}
                          \cup {Obj([verifiableCredential |-> Arr(<<e>>)]) : e \in Entries}]}

HolderInputs ==
  {Build(r) : r \in [iss : {Absent, DidY},
                     holder : {Absent, DidX, Obj([id |-> DidX])},
                     aud : {Absent, DidV, Arr(<<DidV, DidC>>)},
                     verifier : {Absent, DidC, Arr(<<DidC, DidV>>)},
                     id : {Absent, Str(<<"u", "r", "n", ":", "i">>)},
                     jti : {Absent, Undef, Str(<<"u", "r", "n", ":", "j">>)}]}

\* presentations that carry their compact form
PresentationProofInputs ==
  {Build(r) : r \in [proof : {Obj([jwt |-> t]) : t \in Tokens},
                     verifiableCredential : {Absent} \cup {Arr(<<e>>) : e \in Entries}]}

PresentationInputs == EntryInputs \cup HolderInputs \cup PresentationProofInputs

\* strings over a five-letter alphabet: a base64url character, the dot, the
\* double quote and the braces
TextChars == {"a", ".", "\"", "{", "}"}

TextInputs == {Str(s) : s \in SeqsUpTo(TextChars, MaxTextLen)}

\* ----------------------------------------------------------- state machine
\* callerInput  the value the caller holds and passes to the next call
\* given        that value as it was when the last call started
\* output       what the last call returned or threw
\* op           the calls made so far
\* decodable    the compact tokens decodeJWT accepts
\* first        input and output of the first of two chained calls
TokenFree(v) == v \in CredentialInputs \cup HolderInputs

InitObjects ==
  /\ callerInput \in CredentialInputs \cup ProofInputs \cup PresentationInputs
  /\ decodable \in (IF TokenFree(callerInput) THEN {Tokens} ELSE SUBSET Tokens)

Idle ==
  /\ given = Undef
  /\ output = Undef
  /\ op = "none"
  /\ first = Undef

Init == InitObjects /\ Idle

InitText ==
  /\ callerInput \in TextInputs
  /\ decodable \in SUBSET Tokens
  /\ Idle

NormalizeCredential ==
  /\ op = "none"
  /\ \E r \in {normalizeCredential(callerInput)} :
       /\ callerInput' = r.arg
       /\ output' = r.res
  /\ given' = callerInput
  /\ op' = "normalizeCredential"
  /\ UNCHANGED <<decodable, first>>

TransformCredentialInput ==
  /\ op = "none"
  /\ IsObject(callerInput)
  /\ output' = transformCredentialInput(callerInput)
  /\ given' = callerInput
  /\ op' = "transformCredentialInput"
  /\ UNCHANGED <<callerInput, decodable, first>>

NormalizePresentation ==
  /\ op = "none"
  /\ \E r \in {normalizePresentation(callerInput)} :
       /\ callerInput' = r.arg
       /\ output' = r.res
  /\ given' = callerInput
  /\ op' = "normalizePresentation"
  /\ UNCHANGED <<decodable, first>>

TransformPresentationInput ==
  /\ op = "none"
  /\ IsObject(callerInput)
  /\ output' = transformPresentationInput(callerInput)
  /\ given' = callerInput
  /\ op' = "transformPresentationInput"
  /\ UNCHANGED <<callerInput, decodable, first>>

\* normalizeCredential(normalizeCredential(x)): the caller passes the
\* credential it got back
RenormalizeCredential ==
  /\ op = "normalizeCredential"
  /\ IsObject(output)
  /\ \E r \in {normalizeCredential(output)} :
       /\ callerInput' = r.arg
       /\ output' = r.res
  /\ given' = output
  /\ first' = [in |-> given, out |-> output]
  /\ op' = "normalizeCredential.normalizeCredential"
  /\ UNCHANGED decodable

\* transformCredentialInput(normalizeCredential(p) without its proof)
TransformNormalizedCredential ==
  /\ op = "normalizeCredential"
  /\ IsObject(output)
  /\ callerInput' = Delete(output, "proof")
  /\ output' = transformCredentialInput(Delete(output, "proof"))
  /\ given' = Delete(output, "proof")
  /\ first' = [in |-> given, out |-> output]
  /\ op' = "normalizeCredential.transformCredentialInput"
  /\ UNCHANGED decodable

Next ==
  \/ NormalizeCredential
  \/ TransformCredentialInput
  \/ NormalizePresentation
  \/ TransformPresentationInput
  \/ RenormalizeCredential
  \/ TransformNormalizedCredential

Spec == Init /\ [][Next]_vars

NextText ==
  \/ NormalizeCredential
  \/ NormalizePresentation

SpecText == InitText /\ [][NextText]_vars

\* ------------------------------------------------------------------ claims
\* the input went down the payload path of the dispatcher (lines 186-190,
\* 369-373): an object without a compact form in proof.jwt
PayloadPath(v) == IsObject(v) /\ ~Truthy(Get(Get(v, "proof"), "jwt"))

Returned == IsObject(output)

SubjectOf(v) ==
  Obj(Merge(Props(Get(v, "credentialSubject")), Props(Get(Get(v, "vc"), "credentialSubject"))))

SameProperty(a, b, key) == (HasOwn(a, key) <=> HasOwn(b, key)) /\ Get(a, key) = Get(b, key)

\* C1: a legacy attestation (truthy sub, iss, claim, iat) normalizes to a
\* credential whose credentialSubject holds every field of claim plus
\* id = sub, whose issuer.id is iss, whose type is ["VerifiableCredential"]
\* and whose issuanceDate is the ISO form of iat (of nbf when nbf is present)
C1_LegacyAttestation ==
  (op = "normalizeCredential" /\ PayloadPath(given) /\ isLegacyAttestationFormat(given))
  => /\ Returned
     /\ \A key \in DOMAIN Get(given, "claim").f :
          Get(Get(output, "credentialSubject"), key) = Get(Get(given, "claim"), key)
     /\ Get(Get(output, "credentialSubject"), "id") = Get(given, "sub")
     /\ Get(Get(output, "issuer"), "id") = Get(given, "iss")
     /\ Get(output, "type") = Arr(<<DEFAULT_VC_TYPE>>)
     /\ Get(output, "issuanceDate") =
          toISOString((IF HasOwn(given, "nbf") THEN Get(given, "nbf") ELSE Get(given, "iat")).n, 0)

\* C3: no operation changes the caller's input: after the call the input
\* has the fields and values it had before
C3_InputUnchanged ==
  op \in {"normalizeCredential", "transformCredentialInput", "normalizePresentation",
          "transformPresentationInput"}
  => callerInput = given

\* C6: normalizing the output of normalizeCredential again returns the same
\* @context, type, credentialSubject, issuer, id, issuanceDate, expirationDate
C6_Idempotent ==
  (op = "normalizeCredential.normalizeCredential" /\ IsObject(first.in))
  => /\ Returned
     /\ \A key \in {"@context", "type", "credentialSubject", "issuer", "id", "issuanceDate",
                    "expirationDate"} : SameProperty(output, first.out, key)

\* C8: a legacy attestation without context, @context or vc['@context'] of
\* its own gets @context = [the default base context]
C8_LegacyDefaultContext ==
  (/\ op = "normalizeCredential" /\ PayloadPath(given) /\ isLegacyAttestationFormat(given)
   /\ ~HasOwn(given, "context") /\ ~HasOwn(given, "@context")
   /\ ~HasOwn(Get(given, "vc"), "@context"))
  => Get(output, "@context") = Arr(<<DEFAULT_CONTEXT>>)

\* C9: the output credentialSubject is credentialSubject merged with
\* vc.credentialSubject (vc wins); its id becomes sub only when sub is set
\* and the merged subject has no id; the output has no top-level sub
C9_SubjectMerge ==
  (op = "normalizeCredential" /\ PayloadPath(given))
  => LET merged == SubjectOf(given)
         sub == Get(given, "sub")
     IN /\ Get(output, "credentialSubject") =
             (IF Truthy(sub) /\ ~Truthy(Get(merged, "id")) THEN Put(merged, "id", sub) ELSE merged)
        /\ ~HasOwn(output, "sub")

\* C10: transformCredentialInput without an explicit sub promotes the id of
\* the merged subject to sub and removes it from vc.credentialSubject; with
\* a truthy sub it keeps sub and leaves the id in vc.credentialSubject
C10_SubjectIdPromoted ==
  (op = "transformCredentialInput" /\ Returned)
  => LET merged == SubjectOf(given)
         subject == Get(Get(output, "vc"), "credentialSubject")
     IN /\ ~HasOwn(given, "sub")
           => /\ Get(output, "sub") = Get(merged, "id")
              /\ subject = Delete(merged, "id")
        /\ Truthy(Get(given, "sub"))
           => /\ Get(output, "sub") = Get(given, "sub")
              /\ subject = merged

\* a JWT-claims object with every claim of the round trip and no top-level
\* W3C field
RoundTripClaims(p) ==
  /\ IsObject(p)
  /\ {"vc", "nbf", "exp", "jti", "iss"} \subseteq DOMAIN p.f
  /\ {"credentialSubject", "type", "@context"} \subseteq DOMAIN Props(Get(p, "vc"))
  /\ Get(p, "nbf").k = "number" /\ Get(p, "exp").k = "number"
  /\ DOMAIN p.f \cap {"credentialSubject", "type", "@context", "context", "issuer", "id",
                      "issuanceDate", "expirationDate", "proof"} = {}

FormatError ==
  Throw("TypeError", IF op = "normalizeCredential" THEN "unknown credential format"
                     ELSE "unknown presentation format")

\* C4: a string that matches the JWT pattern but does not decode, or that
\* matches neither the pattern nor JSON, raises the format error of the
\* operation; a string that fails the pattern and parses as JSON gives what
\* the operation gives on the parsed value
C4_FormatError ==
  (op \in {"normalizeCredential", "normalizePresentation"} /\ IsString(given))
  => /\ (JWT_FORMAT(given) /\ IsThrow(decodeJWT(given))) => output = FormatError
     /\ (~JWT_FORMAT(given) /\ IsThrow(JSONParse(given))) => output = FormatError
     /\ (~JWT_FORMAT(given) /\ ~IsThrow(JSONParse(given)))
        => output = (IF op = "normalizeCredential"
                     THEN normalizeCredential(JSONParse(given)).res
                     ELSE normalizePresentation(JSONParse(given)).res)

\* a string of the JWT pattern that the decoder rejected
C4_Witness ==
  /\ op = "normalizeCredential"
  /\ JWT_FORMAT(given)
  /\ IsThrow(decodeJWT(given))
  /\ output = Throw("TypeError", "unknown credential format")

\* C5: in both transforms an own jti (even undefined) is kept as given and
\* keeps id in place; id moves to jti only when id is truthy and the input
\* has no own jti; an own nbf (exp) keeps issuanceDate (expirationDate)
\* unconverted
C5_OwnPropertyBlocks ==
  (op \in {"transformCredentialInput", "transformPresentationInput"} /\ Returned)
  => /\ HasOwn(given, "jti")
        => SameProperty(output, given, "jti") /\ SameProperty(output, given, "id")
     /\ (~HasOwn(given, "jti") /\ Truthy(Get(given, "id")))
        => HasOwn(output, "jti") /\ Get(output, "jti") = Get(given, "id") /\ ~HasOwn(output, "id")
     /\ (~HasOwn(given, "jti") /\ ~Truthy(Get(given, "id")))
        => ~HasOwn(output, "jti") /\ SameProperty(output, given, "id")
     /\ HasOwn(given, "nbf")
        => SameProperty(output, given, "nbf") /\ SameProperty(output, given, "issuanceDate")
     /\ HasOwn(given, "exp")
        => SameProperty(output, given, "exp") /\ SameProperty(output, given, "expirationDate")

\* jti: undefined next to an id, and nbf: undefined next to a parseable date
C5_Witness ==
  /\ op = "transformCredentialInput"
  /\ HasOwn(given, "jti") /\ Get(given, "jti") = Undef
  /\ Truthy(Get(given, "id"))
  /\ HasOwn(output, "jti") /\ Get(output, "jti") = Undef
  /\ Get(output, "id") = Get(given, "id")
  /\ HasOwn(given, "nbf") /\ Get(given, "nbf") = Undef
  /\ ~DateParse(Get(given, "issuanceDate")).nan
  /\ Get(output, "issuanceDate") = Get(given, "issuanceDate")

NormalizedEntries(v) ==
  LET entries == SelectSeq(asArray(Get(v, "verifiableCredential"))
                           \o asArray(Get(Get(v, "vp"), "verifiableCredential")), notEmpty)
  IN Arr([i \in 1..Len(entries) |-> normalizeCredential(entries[i]).res])

\* C7 as stated: for every object input, the output verifiableCredential is
\* the top-level entries followed by the vp entries, null and undefined
\* dropped, each normalized, in order; vp.verifiableCredential is gone
C7_EveryObject ==
  (op = "normalizePresentation" /\ IsObject(given) /\ Returned)
  => /\ Get(output, "verifiableCredential") = NormalizedEntries(given)
     /\ ~HasOwn(Get(output, "vp"), "verifiableCredential")

\* C7 amended: the same for every object input without a proof.jwt (with
\* one, the output is that of the claims decoded from proof.jwt)
C7_CredentialsNormalized ==
  (op = "normalizePresentation" /\ PayloadPath(given) /\ Returned)
  => /\ Get(output, "verifiableCredential") = NormalizedEntries(given)
     /\ ~HasOwn(Get(output, "vp"), "verifiableCredential")

\* two entries kept from both lists, a null one dropped
C7_Witness ==
  /\ op = "normalizePresentation"
  /\ PayloadPath(given)
  /\ Returned
  /\ \E i \in 1..Len(asArray(Get(given, "verifiableCredential"))) :
       asArray(Get(given, "verifiableCredential"))[i] = Null
  /\ HasOwn(Get(given, "vp"), "verifiableCredential")
  /\ Len(Get(output, "verifiableCredential").a) = 2
  /\ Get(output, "verifiableCredential").a[1] # Get(output, "verifiableCredential").a[2]
  /\ ~HasOwn(Get(output, "vp"), "verifiableCredential")

====
